---- MODULE Spec2Model ----
(***************************************************************************)
(* cnss_prealloc: the tiered pre-reserved memory pool of                    *)
(* src/cnss_prealloc/cnss_prealloc.c.  The callers run the table-scan      *)
(* wcnss_prealloc_put (the LINUX_VERSION_CODE >= 5.17 branch); the         *)
(* direct-mapping variant of the other branch is the operator DirectPut.   *)
(*                                                                         *)
(* Pointers are integers: NULL is 0, the blocks of pool i are              *)
(* 10*i + 1 .. 10*i + BlocksPerPool, Junk is a non-null value that is no   *)
(* block of any pool.  Sizes are in KiB.  Pools are numbered from 1; the   *)
(* loop variable i of the C code is therefore one more than in the source. *)
(***************************************************************************)
EXTENDS Integers, Sequences, FiniteSets, TLC

(* ------------------------------ bounds -------------------------------- *)
NPools == 2
MinReserve == 1
ExtraBlocks == 1
NThreads == 2

(* ----------------------------- constants ------------------------------ *)
NULL == 0
Junk == 1
EPERM == 1
ENOENT == 2
EINVAL == 22

Pools == 1..NPools
Threads == 1..NThreads
BlocksPerPool == MinReserve + ExtraBlocks

\* cnss_pools_*[]: sizes 8k, 16k, 32k, ... in increasing order; min per pool.
PoolSize(i) == 8 * (2 ^ (i - 1))
PoolMin(i) == MinReserve

Blocks(i) == {10 * i + j : j \in 1..BlocksPerPool}
AllBlocks == UNION {Blocks(i) : i \in Pools}
Ptrs == AllBlocks \cup {Junk}

\* Request sizes: below the threshold, the threshold, one between each two
\* pool sizes, and one above the largest pool.
ReqSizes == {4, PoolSize(1)} \cup {PoolSize(i) - 4 : i \in 2..(NPools + 1)}

VARIABLES
    cnss_pools,        \* 0 (NULL) or 1 (bound to a profile's array)
    mp,                \* mp[i]: TRUE when cnss_pools[i].mp is non-NULL
    cache,             \* cache[i]: TRUE when cnss_pools[i].cache is non-NULL
    pool_ptrs,         \* pool_ptrs[i]: [nil |-> BOOLEAN, slots |-> Seq(ptr)]
    table_capacity,    \* table_capacity[i]
    free,              \* free[i]: blocks of pool i not handed out by its mempool
    curr_nr,           \* curr_nr[i]: elements in the mempool's reserve
    pool_table_lock,   \* 0 when free, else the thread holding it
    thr,               \* thr[t]: the stack frame of thread t
    held,              \* held[t]: addresses acquire returned to t, not yet released
    life,              \* "uninit", "init", "deinit"
    klog,              \* diagnostics printed by init and deinit
    report,            \* output of the last audit while nothing changed since
    panic,             \* TRUE after a NULL dereference or a bad mempool_free
    scope              \* the environment of the run, fixed by Init

vars == <<cnss_pools, mp, cache, pool_ptrs, table_capacity, free, curr_nr,
          pool_table_lock, thr, held, life, klog, report, panic, scope>>

poolvars == <<cnss_pools, mp, cache, pool_ptrs, table_capacity, free, curr_nr>>

NilTable == [nil |-> TRUE, slots |-> <<>>]
Table(s) == [nil |-> FALSE, slots |-> s]

NoReport == {<<0, 0, 0>>}

\* No result of the direct-mapping release recorded.
NoDirect == [res |-> 0, ptrs |-> <<>>, free |-> <<>>, nr |-> <<>>, bad |-> FALSE]

IdleFrame == [pc |-> "idle", size |-> 0, atomic |-> FALSE, mem |-> NULL,
              i |-> 0, ret |-> 0, res |-> 0, tried |-> {}, dup |-> FALSE,
              onloan |-> FALSE, direct |-> NoDirect]

Quiescent == pool_table_lock = 0 /\ \A t \in Threads : thr[t].pc = "idle"

Loans == UNION {held[t] : t \in Threads}

Outcomes == {"cache_fail", "mempool_fail", "table_fail", "ok"}

\* The environments explored.  threads: the callers that run; outcomes[i]:
\* what the construction of pool i may end in; garbage: what a fresh table
\* may hold (0: zero, 1: Junk, 2: a stale block address of the pool); slab:
\* how many blocks the slab cache can supply beyond a mempool's reserve.
\* One caller meets every construction outcome and every table content;
\* NThreads concurrent callers meet a profile whose first pool only is
\* built, with or without its table; and NThreads concurrent callers meet
\* a single pool whose slab cache cannot supply anything.
ScopeSeq ==
    [threads |-> {1}, outcomes |-> [i \in Pools |-> Outcomes],
     garbage |-> {0, 1, 2}, slab |-> ExtraBlocks]
ScopeConc ==
    [threads |-> Threads,
     outcomes |-> [i \in Pools |-> IF i = 1 THEN {"table_fail", "ok"}
                                   ELSE {"cache_fail"}],
     garbage |-> {0, 2}, slab |-> ExtraBlocks]
ScopeReserve ==
    [threads |-> Threads,
     outcomes |-> [i \in Pools |-> IF i = 1 THEN {"ok"} ELSE {"cache_fail"}],
     garbage |-> {0, 2}, slab |-> 0]

Init ==
    /\ scope \in {ScopeSeq, ScopeConc, ScopeReserve}
    /\ cnss_pools = 0
    /\ mp = [i \in Pools |-> FALSE]
    /\ cache = [i \in Pools |-> FALSE]
    /\ pool_ptrs = [i \in Pools |-> NilTable]
    /\ table_capacity = [i \in Pools |-> 0]
    /\ free = [i \in Pools |-> {}]
    /\ curr_nr = [i \in Pools |-> 0]
    /\ pool_table_lock = 0
    /\ thr = [t \in Threads |-> IdleFrame]
    /\ held = [t \in Threads |-> {}]
    /\ life = "uninit"
    /\ klog = {}
    /\ report = NoReport
    /\ panic = FALSE

(* --------------------------- kernel services -------------------------- *)

\* mempool_alloc(): the slab is tried first and may fail at any time; an
\* element of the reserve is taken only then.  With an empty reserve a
\* non-blocking caller gets NULL and a blocking caller waits.
\* The result is the set of possible outcomes [mem, nr] (nr: new curr_nr).
mempool_alloc(i, atomic) ==
    (IF Cardinality(free[i]) > curr_nr[i]
     THEN {[mem |-> a, nr |-> curr_nr[i]] : a \in free[i]} ELSE {})
    \cup (IF curr_nr[i] > 0
     THEN {[mem |-> a, nr |-> curr_nr[i] - 1] : a \in free[i]} ELSE {})
    \cup (IF atomic /\ curr_nr[i] = 0
     THEN {[mem |-> NULL, nr |-> curr_nr[i]]} ELSE {})

\* mempool_free() of an element that pool i handed out and nobody freed.
GoodFree(i, a) == a \in Blocks(i) /\ a \notin free[i]

\* mempool_free(): the element refills the reserve below min_nr, else it
\* goes back to the slab.  What a bad free does to the allocator is not
\* defined; the model stops there (panic) with the allocator as it was.
FreeSetLeak(i, a) == free[i]
FreeSetAfter(i, a) == IF GoodFree(i, a) THEN free[i] \cup {a} ELSE free[i]
CurrNrAfter(i, a) ==
    IF GoodFree(i, a) /\ curr_nr[i] < PoolMin(i) THEN curr_nr[i] + 1
    ELSE curr_nr[i]

(* ------------------------------ lifecycle ------------------------------ *)

\* What kmalloc() without __GFP_ZERO can leave in a slot of a fresh table:
\* zero, an unrelated bit pattern, or a stale block address of the pool.
Garbage(i, c) == IF c = 0 THEN NULL ELSE IF c = 1 THEN Junk ELSE 10 * i + 1

\* The table kmalloc() returns: PoolMin(i) slots, contents not initialised.
InitTable(i, g) == Table([k \in 1..PoolMin(i) |-> Garbage(i, g[k])])

\* The blocks mempool_create() leaves pool i able to hand out: the min
\* elements of its reserve and what the slab cache can supply on top.
InitFree(i) == {10 * i + j : j \in 1..(PoolMin(i) + scope.slab)}

\* cnss_initialize_prealloc_pool(): cnss_assign_prealloc_pool() binds the
\* profile, cnss_pool_init() builds every pool; out[i] is what happens to
\* pool i, g[i] what its fresh table holds.
Initialize ==
    /\ ~panic /\ Quiescent /\ life = "uninit"
    /\ \E out \in [Pools -> Outcomes],
          g \in [Pools -> [1..MinReserve -> 0..2]] :
        /\ \A i \in Pools : out[i] \in scope.outcomes[i]
        /\ \A i \in Pools : \A k \in 1..MinReserve :
              g[i][k] \in (IF out[i] = "ok" THEN scope.garbage ELSE {0})
        /\ cnss_pools' = 1
        /\ cache' = [i \in Pools |-> out[i] \in {"table_fail", "ok"}]
        /\ mp' = [i \in Pools |-> out[i] \in {"table_fail", "ok"}]
        /\ table_capacity' = [i \in Pools |->
               IF out[i] \in {"table_fail", "ok"} THEN PoolMin(i)
               ELSE table_capacity[i]]
        /\ pool_ptrs' = [i \in Pools |->
               IF out[i] = "ok" THEN InitTable(i, g[i])
               ELSE IF out[i] = "table_fail" THEN NilTable
               ELSE pool_ptrs[i]]
        /\ free' = [i \in Pools |->
               IF out[i] \in {"table_fail", "ok"} THEN InitFree(i) ELSE {}]
        /\ curr_nr' = [i \in Pools |->
               IF out[i] \in {"table_fail", "ok"} THEN PoolMin(i) ELSE 0]
        /\ klog' = klog
               \cup {<<"cache_failed", i>> : i \in {j \in Pools : out[j] = "cache_fail"}}
               \cup {<<"mempool_failed", i>> : i \in {j \in Pools : out[j] = "mempool_fail"}}
               \cup {<<"table_failed", i>> : i \in {j \in Pools : out[j] = "table_fail"}}
               \cup {<<"created", i>> : i \in {j \in Pools : out[j] \in {"table_fail", "ok"}}}
    /\ life' = "init"
    /\ report' = NoReport
    /\ UNCHANGED <<pool_table_lock, thr, held, panic, scope>>

\* What cnss_pool_deinit() leaves in pool_ptrs[i] after kfree().
DeinitPtrsKept(i) == pool_ptrs[i]
DeinitPtrs(i) == NilTable

\* What cnss_pool_deinit() prints.
DeinitLog == {<<"destroy", i>> : i \in Pools}

\* cnss_deinitialize_prealloc_pool() -> cnss_pool_deinit().
Deinit ==
    /\ ~panic /\ Quiescent
    /\ IF cnss_pools = 0
       THEN UNCHANGED <<poolvars, life, klog>>
       ELSE /\ mp' = [i \in Pools |-> FALSE]
            /\ cache' = [i \in Pools |-> FALSE]
            /\ pool_ptrs' = [i \in Pools |-> DeinitPtrs(i)]
            /\ free' = [i \in Pools |-> {}]
            /\ curr_nr' = [i \in Pools |-> 0]
            /\ klog' = klog \cup DeinitLog
            /\ life' = "deinit"
            /\ UNCHANGED <<cnss_pools, table_capacity>>
    /\ report' = NoReport
    /\ UNCHANGED <<pool_table_lock, thr, held, panic, scope>>

(* -------------------------------- audit -------------------------------- *)

\* The pools whose table wcnss_check_pool_lists() cannot walk: a NULL
\* pool_ptrs with a non-zero table_capacity.
Unwalkable == {i \in Pools : pool_ptrs[i].nil /\ table_capacity[i] > 0}

\* The lines wcnss_check_pool_lists() prints: one per non-NULL slot,
\* <<address, pool, slot index>>.
AuditLines ==
    UNION {{<<pool_ptrs[i].slots[k], i, k>> :
               k \in {m \in 1..table_capacity[i] : pool_ptrs[i].slots[m] # NULL}} :
           i \in {j \in Pools : ~pool_ptrs[j].nil}}

\* What the walk leaves in table i: the slots are read, never written.
AuditPtrsCleared(i) ==
    IF pool_ptrs[i].nil THEN pool_ptrs[i]
    ELSE Table([k \in 1..table_capacity[i] |-> NULL])
AuditPtrs(i) == pool_ptrs[i]

\* wcnss_check_pool_lists(): no check of cnss_pools, no check of pool_ptrs,
\* no lock.  It dereferences cnss_pools[i] and pool[ptr_idx] as they are;
\* a walk that meets a NULL does not complete.
Audit ==
    /\ ~panic /\ Quiescent
    /\ IF cnss_pools = 0 \/ Unwalkable # {}
       THEN /\ panic' = TRUE
            /\ report' = NoReport
            /\ UNCHANGED pool_ptrs
       ELSE /\ panic' = FALSE
            /\ report' = AuditLines
            /\ pool_ptrs' = [i \in Pools |-> AuditPtrs(i)]
    /\ UNCHANGED <<cnss_pools, mp, cache, table_capacity, free, curr_nr,
                   pool_table_lock, thr, held, life, klog, scope>>

(* ------------------------- tracking-table scans ------------------------ *)

\* The first slot of s below cap that holds v, or 0.
FirstSlot(s, cap, v) ==
    IF \E k \in 1..cap : s[k] = v
    THEN CHOOSE k \in 1..cap : s[k] = v /\ \A m \in 1..(k - 1) : s[m] # v
    ELSE 0

\* The table after krealloc() succeeded and the new slot was written.
GrownTable(s, a) == Table(Append(s, a))

\* The table pointer after krealloc() failed: its NULL result was assigned
\* to pool_ptrs.
FailedGrowPtrs(i) == NilTable

\* wcnss_find_pool_table_slot(pool, mem), krealloc() succeeding iff kr.
\* Result: the pool's new pool_ptrs and table_capacity and the return value.
wcnss_find_pool_table_slot(i, a, kr) ==
    LET s == pool_ptrs[i].slots
        k == FirstSlot(s, table_capacity[i], NULL)
    IN  IF k # 0
        THEN [ptrs |-> Table([s EXCEPT ![k] = a]),
              cap |-> table_capacity[i], ret |-> 0]
        ELSE IF kr
        THEN [ptrs |-> GrownTable(s, a),
              cap |-> table_capacity[i] + 1, ret |-> 0]
        ELSE [ptrs |-> FailedGrowPtrs(i),
              cap |-> table_capacity[i], ret |-> -EPERM]

\* wcnss_free_pool_table_slot(mempool, mem): the slot index (from 0) that
\* was cleared, or -EPERM.
wcnss_free_pool_table_slot(i, a) ==
    LET s == pool_ptrs[i].slots
        k == FirstSlot(s, table_capacity[i], a)
    IN  IF k # 0
        THEN [ptrs |-> Table([s EXCEPT ![k] = NULL]), ret |-> k - 1]
        ELSE [ptrs |-> pool_ptrs[i], ret |-> -EPERM]

(* --------------------------- wcnss_prealloc_get ------------------------ *)

\* cnss_pool_alloc_threshold()
cnss_pool_alloc_threshold == PoolSize(1)

\* The pool test of the loop: cnss_pools[i].size >= size && cnss_pools[i].mp
Eligible(i, sz) == PoolSize(i) >= sz /\ mp[i]

\* The loop from pool i on, up to the first pool that passes the pool test
\* (NPools + 1: the loop ran out).  The rounds skipped read only size and
\* mp, which do not change while a call runs.
NextPool(i, sz) ==
    IF \E j \in i..NPools : Eligible(j, sz)
    THEN CHOOSE j \in i..NPools :
            Eligible(j, sz) /\ \A k \in i..(j - 1) : ~Eligible(k, sz)
    ELSE NPools + 1

\* Where the loop goes after mempool_alloc() returned NULL: on to the next
\* round.
AfterAllocFailStop(i, sz) == NPools + 1
AfterAllocFail(i, sz) == NextPool(i + 1, sz)

\* Entry: the !cnss_pools test, the choice of gfp_mask from the calling
\* context (at: the caller may not block), the threshold test and the loop
\* up to the first pool that passes the pool test.  The frame keeps
\* gfp_mask (atomic) only as long as the call can reach mempool_alloc().
GetEnter(t, sz, at) ==
    /\ ~panic /\ thr[t].pc = "idle"
    /\ thr' = [thr EXCEPT ![t] =
          [IdleFrame EXCEPT
              !.size = sz,
              !.atomic = at /\ cnss_pools # 0 /\ sz >= cnss_pool_alloc_threshold,
              !.pc = IF cnss_pools = 0 THEN "get_ret"
                     ELSE IF sz >= cnss_pool_alloc_threshold THEN "get_loop"
                     ELSE "get_post",
              !.i = IF cnss_pools # 0 /\ sz >= cnss_pool_alloc_threshold
                    THEN NextPool(1, sz) ELSE 0]]
    /\ report' = NoReport
    /\ UNCHANGED <<poolvars, pool_table_lock, held, life, klog, panic, scope>>

\* The body of the loop at a pool that passed the pool test, first part:
\* the pool_ptrs test (mem = NULL; break when there is no table).
GetLoop(t) ==
    /\ ~panic /\ thr[t].pc = "get_loop"
    /\ LET f == thr[t] IN
       thr' = [thr EXCEPT ![t] =
          IF f.i > NPools
          THEN [f EXCEPT !.pc = "get_post", !.atomic = FALSE]
          ELSE IF pool_ptrs[f.i].nil
          THEN [f EXCEPT !.mem = NULL, !.pc = "get_post", !.atomic = FALSE]
          ELSE [f EXCEPT !.pc = "get_alloc"]]
    /\ report' = NoReport
    /\ UNCHANGED <<poolvars, pool_table_lock, held, life, klog, panic, scope>>

\* Second part: mem = mempool_alloc(cnss_pools[i].mp, gfp_mask) and the
\* test of mem.  A blocking mempool_alloc() with nothing to give does not
\* return.
GetAlloc(t) ==
    /\ ~panic /\ thr[t].pc = "get_alloc"
    /\ LET f == thr[t] IN
       \E o \in mempool_alloc(f.i, f.atomic) :
            /\ free' = [free EXCEPT ![f.i] = free[f.i] \ {o.mem}]
            /\ curr_nr' = [curr_nr EXCEPT ![f.i] = o.nr]
            /\ thr' = [thr EXCEPT ![t] =
                  IF o.mem # NULL
                  THEN [f EXCEPT !.mem = o.mem, !.pc = "get_slot",
                                 !.atomic = FALSE]
                  ELSE [f EXCEPT !.mem = NULL, !.tried = f.tried \cup {f.i},
                                 !.i = AfterAllocFail(f.i, f.size),
                                 !.pc = "get_loop"]]
    /\ report' = NoReport
    /\ UNCHANGED <<cnss_pools, mp, cache, pool_ptrs, table_capacity,
                   pool_table_lock, held, life, klog, panic, scope>>

\* What spin_lock_irqsave(&pool_table_lock, ...) by thread t leaves in the
\* lock.
LockedByNone(t) == 0
LockedBy(t) == t

\* spin_lock_irqsave(&pool_table_lock, irq_flags) in wcnss_prealloc_get().
GetLock(t) ==
    /\ ~panic /\ thr[t].pc = "get_slot"
    /\ pool_table_lock = 0
    /\ pool_table_lock' = LockedBy(t)
    /\ thr' = [thr EXCEPT ![t].pc = "get_locked"]
    /\ report' = NoReport
    /\ UNCHANGED <<poolvars, held, life, klog, panic, scope>>

\* ret = wcnss_find_pool_table_slot(i, mem); spin_unlock_irqrestore();
\* break.  A NULL table with a non-zero capacity is read through: the
\* thread dies inside the critical section.
GetSlot(t) ==
    /\ ~panic /\ thr[t].pc = "get_locked"
    /\ LET f == thr[t] IN
       IF pool_ptrs[f.i].nil /\ table_capacity[f.i] > 0
       THEN /\ panic' = TRUE
            /\ UNCHANGED pool_table_lock
            /\ thr' = [thr EXCEPT ![t].pc = "oops"]
            /\ UNCHANGED <<pool_ptrs, table_capacity>>
       ELSE \E kr \in BOOLEAN :
            LET r == wcnss_find_pool_table_slot(f.i, f.mem, kr) IN
            /\ pool_ptrs' = [pool_ptrs EXCEPT ![f.i] = r.ptrs]
            /\ table_capacity' = [table_capacity EXCEPT ![f.i] = r.cap]
            /\ thr' = [thr EXCEPT ![t] =
                  [f EXCEPT !.ret = r.ret, !.pc = "get_post",
                            !.dup = FirstSlot(pool_ptrs[f.i].slots,
                                              table_capacity[f.i], f.mem) # 0]]
            /\ pool_table_lock' = 0
            /\ panic' = FALSE
    /\ report' = NoReport
    /\ UNCHANGED <<cnss_pools, mp, cache, free, curr_nr, held, life, klog, scope>>

\* After the loop: the roll-back on ret < 0 (mempool_free(mem,
\* cnss_pools[i].mp); mem = NULL), and return mem.
GetPost(t) ==
    /\ ~panic /\ thr[t].pc = "get_post"
    /\ LET f == thr[t]
           m == IF f.ret < 0 THEN NULL ELSE f.mem
       IN
       /\ IF f.ret < 0
          THEN /\ free' = [free EXCEPT ![f.i] = FreeSetAfter(f.i, f.mem)]
               /\ curr_nr' = [curr_nr EXCEPT ![f.i] = CurrNrAfter(f.i, f.mem)]
               /\ panic' = ~GoodFree(f.i, f.mem)
          ELSE UNCHANGED <<free, curr_nr, panic>>
       /\ thr' = [u \in Threads |->
             IF u = t THEN [f EXCEPT !.mem = m, !.pc = "get_ret"]
             ELSE IF m # NULL /\ thr[u].mem = m
                     /\ thr[u].pc \in {"put_loop", "put_slot", "put_locked", "put_free"}
             THEN [thr[u] EXCEPT !.onloan = TRUE]
             ELSE thr[u]]
       /\ held' = [held EXCEPT ![t] = held[t] \cup ({m} \ {NULL})]
    /\ report' = NoReport
    /\ UNCHANGED <<cnss_pools, mp, cache, pool_ptrs, table_capacity,
                   pool_table_lock, life, klog, scope>>

\* The caller has the result; the frame is gone.
GetDone(t) ==
    /\ ~panic /\ thr[t].pc = "get_ret"
    /\ thr' = [thr EXCEPT ![t] = IdleFrame]
    /\ report' = NoReport
    /\ UNCHANGED <<poolvars, pool_table_lock, held, life, klog, panic, scope>>

(* --------------------------- wcnss_prealloc_put ------------------------ *)

\* The loop from pool i on, up to the first pool with a mempool
\* (NPools + 1: the loop ran out).
NextLive(i) ==
    IF \E j \in i..NPools : mp[j]
    THEN CHOOSE j \in i..NPools : mp[j] /\ \A k \in i..(j - 1) : ~mp[k]
    ELSE NPools + 1

\* What the loop does at a pool with a mempool and a NULL table: break,
\* that is leave the loop (and return 0).
AfterNullTable(i) == NPools + 1

\* if (!mem || !cnss_pools) return 0; then the loop up to the first pool
\* with a mempool.  The result is the pool the loop stops at, 0 for return.
PutEntryUnguarded(p) == NextLive(1)
PutEntry(p) == IF p = NULL \/ cnss_pools = 0 THEN 0 ELSE NextLive(1)

\* cnss_pool_get_index(mem) of the direct-mapping wcnss_prealloc_put(): an
\* address that is no valid block gives -EINVAL; a block's page leads to
\* the cache it was carved from, and the index is that of the pool with
\* this cache, if any (pools are numbered from 1 here).
cnss_pool_get_index(a) ==
    IF a \notin AllBlocks THEN -EINVAL
    ELSE IF \E i \in Pools : a \in Blocks(i) /\ cache[i]
    THEN CHOOSE i \in Pools : a \in Blocks(i) /\ cache[i]
    ELSE -ENOENT

\* The direct-mapping wcnss_prealloc_put(mem) (the branch for kernels
\* before 5.17) run alone from the current state: its return value, the
\* tables, free blocks and reserves it leaves, and whether its
\* mempool_free() was a bad one.
DirectPut(p) ==
    LET i == cnss_pool_get_index(p)
        same == [res |-> 0, ptrs |-> pool_ptrs, free |-> free, nr |-> curr_nr,
                 bad |-> FALSE]
    IN  IF p = NULL \/ cnss_pools = 0 THEN same
        ELSE IF ~(i >= 1 /\ i <= NPools) THEN same
        ELSE IF ~mp[i] THEN same
        ELSE IF pool_ptrs[i].nil THEN same
        ELSE LET r == wcnss_free_pool_table_slot(i, p) IN
             IF r.ret >= 0
             THEN [res |-> 1,
                   ptrs |-> [pool_ptrs EXCEPT ![i] = r.ptrs],
                   free |-> [free EXCEPT ![i] = FreeSetAfter(i, p)],
                   nr |-> [curr_nr EXCEPT ![i] = CurrNrAfter(i, p)],
                   bad |-> ~GoodFree(i, p)]
             ELSE same

\* Entry of wcnss_prealloc_put(mem).  A lone caller's frame also records
\* what the direct-mapping variant would have done from the same state.
PutEnter(t, p) ==
    /\ ~panic /\ thr[t].pc = "idle"
    /\ thr' = [thr EXCEPT ![t] =
          [IdleFrame EXCEPT
              !.mem = p, !.onloan = p \in Loans,
              !.direct = IF scope.threads = {t} THEN DirectPut(p) ELSE NoDirect,
              !.pc = IF PutEntry(p) = 0 THEN "put_ret" ELSE "put_loop",
              !.i = PutEntry(p)]]
    /\ report' = NoReport
    /\ UNCHANGED <<poolvars, pool_table_lock, held, life, klog, panic, scope>>

\* The pool_ptrs test at a pool with a mempool; return 0 after the loop.
PutLoop(t) ==
    /\ ~panic /\ thr[t].pc = "put_loop"
    /\ LET f == thr[t] IN
       thr' = [thr EXCEPT ![t] =
          IF f.i > NPools THEN [f EXCEPT !.res = 0, !.pc = "put_ret"]
          ELSE IF pool_ptrs[f.i].nil
          THEN [f EXCEPT !.i = AfterNullTable(f.i)]
          ELSE [f EXCEPT !.pc = "put_slot"]]
    /\ report' = NoReport
    /\ UNCHANGED <<poolvars, pool_table_lock, held, life, klog, panic, scope>>

\* spin_lock_irqsave(&pool_table_lock, irq_flags) in wcnss_prealloc_put().
PutLock(t) ==
    /\ ~panic /\ thr[t].pc = "put_slot"
    /\ pool_table_lock = 0
    /\ pool_table_lock' = LockedBy(t)
    /\ thr' = [thr EXCEPT ![t].pc = "put_locked"]
    /\ report' = NoReport
    /\ UNCHANGED <<poolvars, held, life, klog, panic, scope>>

\* ret = wcnss_free_pool_table_slot(cnss_pools[i], mem);
\* spin_unlock_irqrestore(); the test of ret.
PutSlot(t) ==
    /\ ~panic /\ thr[t].pc = "put_locked"
    /\ LET f == thr[t] IN
       IF pool_ptrs[f.i].nil /\ table_capacity[f.i] > 0
       THEN /\ panic' = TRUE
            /\ UNCHANGED pool_table_lock
            /\ thr' = [thr EXCEPT ![t].pc = "oops"]
            /\ UNCHANGED pool_ptrs
       ELSE LET r == wcnss_free_pool_table_slot(f.i, f.mem) IN
            /\ pool_ptrs' = [pool_ptrs EXCEPT ![f.i] = r.ptrs]
            /\ thr' = [thr EXCEPT ![t] =
                  IF r.ret >= 0
                  THEN [f EXCEPT !.ret = r.ret, !.pc = "put_free"]
                  ELSE [f EXCEPT !.ret = r.ret, !.i = NextLive(f.i + 1),
                                 !.pc = "put_loop"]]
            /\ pool_table_lock' = 0
            /\ panic' = FALSE
    /\ report' = NoReport
    /\ UNCHANGED <<cnss_pools, mp, cache, table_capacity, free, curr_nr,
                   held, life, klog, scope>>

\* mempool_free(mem, cnss_pools[i].mp); return 1.
PutFree(t) ==
    /\ ~panic /\ thr[t].pc = "put_free"
    /\ LET f == thr[t] IN
       /\ free' = [free EXCEPT ![f.i] = FreeSetAfter(f.i, f.mem)]
       /\ curr_nr' = [curr_nr EXCEPT ![f.i] = CurrNrAfter(f.i, f.mem)]
       /\ panic' = ~GoodFree(f.i, f.mem)
       /\ thr' = [thr EXCEPT ![t] = [f EXCEPT !.res = 1, !.pc = "put_ret"]]
       /\ held' = [u \in Threads |-> held[u] \ {f.mem}]
    /\ report' = NoReport
    /\ UNCHANGED <<cnss_pools, mp, cache, pool_ptrs, table_capacity,
                   pool_table_lock, life, klog, scope>>

\* The caller has the result; the frame is gone.
PutDone(t) ==
    /\ ~panic /\ thr[t].pc = "put_ret"
    /\ thr' = [thr EXCEPT ![t] = IdleFrame]
    /\ report' = NoReport
    /\ UNCHANGED <<poolvars, pool_table_lock, held, life, klog, panic, scope>>

(* ---------------------------- specification ---------------------------- *)

Next ==
    \/ Initialize
    \/ Deinit
    \/ Audit
    \/ \E t \in scope.threads, sz \in ReqSizes, at \in BOOLEAN : GetEnter(t, sz, at)
    \/ \E t \in scope.threads : GetLoop(t)
    \/ \E t \in scope.threads : GetAlloc(t)
    \/ \E t \in scope.threads : GetLock(t)
    \/ \E t \in scope.threads : GetSlot(t)
    \/ \E t \in scope.threads : GetPost(t)
    \/ \E t \in scope.threads : GetDone(t)
    \/ \E t \in scope.threads, p \in {NULL} \cup Ptrs : PutEnter(t, p)
    \/ \E t \in scope.threads : PutLoop(t)
    \/ \E t \in scope.threads : PutLock(t)
    \/ \E t \in scope.threads : PutSlot(t)
    \/ \E t \in scope.threads : PutFree(t)
    \/ \E t \in scope.threads : PutDone(t)

Spec == Init /\ [][Next]_vars

TypeOK ==
    /\ cnss_pools \in {0, 1}
    /\ \A i \in Pools :
          /\ ~pool_ptrs[i].nil => Len(pool_ptrs[i].slots) = table_capacity[i]
          /\ free[i] \subseteq Blocks(i)
          /\ curr_nr[i] \in 0..PoolMin(i)
          /\ curr_nr[i] <= Cardinality(free[i])
          /\ mp[i] = cache[i]
    /\ pool_table_lock \in 0..NThreads

(* ------------------------------- claims -------------------------------- *)

\* The pools whose table records address a, and how often table i does.
Recorded(a) ==
    {i \in Pools : ~pool_ptrs[i].nil
                   /\ \E k \in 1..table_capacity[i] : pool_ptrs[i].slots[k] = a}
Occurrences(i, a) ==
    IF pool_ptrs[i].nil THEN 0
    ELSE Cardinality({k \in 1..table_capacity[i] : pool_ptrs[i].slots[k] = a})

\* C1: when acquire(size) has returned a non-null address a, a occupies a
\* slot of exactly one pool's tracking table, that pool's block size is at
\* least size, and the table did not hold a when a was inserted.
C1_AcquiredRecordedOnce ==
    \A t \in Threads :
        (thr[t].pc = "get_ret" /\ thr[t].mem # NULL) =>
            /\ Cardinality(Recorded(thr[t].mem)) = 1
            /\ \A i \in Recorded(thr[t].mem) :
                  PoolSize(i) >= thr[t].size /\ Occurrences(i, thr[t].mem) = 1
            /\ ~thr[t].dup

\* C2: in an initialized pool set, release(a) of an address the caller
\* holds (acquired, not released since) succeeds: when it has returned the
\* caller no longer holds a.
C2_ReleaseOfHeldSucceeds ==
    \A t \in Threads :
        (thr[t].pc = "put_ret" /\ life = "init") => thr[t].mem \notin held[t]

\* C3: release(a) of an address that is not on loan (released before and
\* not handed out again, or never obtained from the pool) returns 0.
C3_SecondReleaseFails ==
    \A t \in Threads :
        (thr[t].pc = "put_ret" /\ thr[t].mem # NULL /\ ~thr[t].onloan) =>
            thr[t].res = 0

\* C4: at a quiescent point after initialize the audit reports nothing iff
\* nothing is on loan, and the addresses it reports are those on loan.
C4_AuditReportsLoans ==
    (life = "init" /\ report # NoReport) =>
        /\ (report = {}) <=> (Loans = {})
        /\ {r[1] : r \in report} = Loans

\* The frames of an acquire that got past the threshold test of an
\* initialized pool set and has left the loop.
PastLoop(t) ==
    /\ thr[t].pc \in {"get_slot", "get_locked", "get_post", "get_ret"}
    /\ cnss_pools # 0
    /\ thr[t].size >= PoolSize(1)

\* C5 as claimed: a block is only ever taken from the first eligible pool
\* (the smallest one with block size >= size and a mempool).
C5_HardStop ==
    \A t \in Threads :
        (PastLoop(t) /\ thr[t].mem # NULL) =>
            \A k \in 1..(thr[t].i - 1) : ~(PoolSize(k) >= thr[t].size /\ mp[k])

\* C5 as amended: acquire tries the eligible pools in ascending order; it
\* leaves the loop at pool i only after every smaller eligible pool was
\* tried and gave NULL, and it stops short of the last pool only at an
\* eligible pool it did not fail on (one that gave the block, or one with
\* no tracking table).
C5_FallsThrough ==
    \A t \in Threads :
        PastLoop(t) =>
            /\ \A k \in 1..(thr[t].i - 1) :
                  (PoolSize(k) >= thr[t].size /\ mp[k]) => k \in thr[t].tried
            /\ thr[t].i <= NPools =>
                  /\ PoolSize(thr[t].i) >= thr[t].size /\ mp[thr[t].i]
                  /\ thr[t].i \notin thr[t].tried

\* C5 witness: a block came from a larger pool after a smaller eligible
\* pool gave NULL.
C5_Witness ==
    \E t \in Threads :
        thr[t].pc = "get_ret" /\ thr[t].mem # NULL /\ thr[t].tried # {}

\* C6: when the table insert failed (ret < 0) the step that ends acquire
\* gives the raw block back to the mempool of the pool it came from and
\* nothing else, and acquire returns NULL without the caller holding it.
C6_InsertFailureRollsBack ==
    [][\A t \in Threads :
          (thr[t].pc = "get_post" /\ thr[t].ret < 0 /\ thr'[t].pc = "get_ret") =>
              /\ thr'[t].mem = NULL
              /\ thr[t].mem \in Blocks(thr[t].i)
              /\ thr[t].mem \in free'[thr[t].i]
              /\ \A i \in Pools : free'[i] \ {thr[t].mem} = free[i] \ {thr[t].mem}
              /\ held' = held]_vars

\* C6 witness: an acquire has returned after a failed insert.
C6_Witness ==
    \E t \in Threads : thr[t].pc = "get_ret" /\ thr[t].ret < 0 /\ ~panic

\* C7: no address is held by two threads at once, and of two concurrent
\* release(a) calls no more than one finds a slot to clear.
C7_NoSharedAddress ==
    \A t \in Threads : \A u \in Threads \ {t} :
        /\ held[t] \cap held[u] = {}
        /\ ~(/\ thr[t].pc \in {"put_free", "put_ret"} /\ thr[t].ret >= 0
             /\ thr[u].pc \in {"put_free", "put_ret"} /\ thr[u].ret >= 0
             /\ thr[t].mem = thr[u].mem /\ thr[t].mem # NULL
             /\ (thr[t].pc = "put_ret" => thr[t].res = 1)
             /\ (thr[u].pc = "put_ret" => thr[u].res = 1))

\* C8: at a quiescent point, when more than reserveMinimum blocks of a pool
\* are on loan, the pool's table_capacity is at least their number and each
\* of them is recorded in the pool's table exactly once.
C8_GrowthKeepsRecords ==
    (Quiescent /\ life = "init") =>
        \A i \in Pools :
            Cardinality(Loans \cap Blocks(i)) > PoolMin(i) =>
                /\ table_capacity[i] >= Cardinality(Loans \cap Blocks(i))
                /\ \A a \in Loans \cap Blocks(i) : Occurrences(i, a) = 1

\* C9 as claimed: after deinit() the pool state is the one before any
\* initialize.
C9_DeinitResetsHandle ==
    life = "deinit" =>
        /\ cnss_pools = 0
        /\ \A i \in Pools :
              ~mp[i] /\ ~cache[i] /\ pool_ptrs[i].nil /\ table_capacity[i] = 0

\* C9 as amended: after deinit() every pool has no mempool, no cache and
\* no table; acquire then returns NULL and release 0, and no call (a second
\* deinit included) changes the pool state; nor does any call before
\* initialize.  cnss_pools stays bound and table_capacity stays.
C9_DeinitTearsDown ==
    /\ [](life = "deinit" =>
            /\ \A i \in Pools : ~mp[i] /\ ~cache[i] /\ pool_ptrs[i].nil
            /\ \A t \in Threads :
                  /\ thr[t].pc = "get_ret" => thr[t].mem = NULL
                  /\ thr[t].pc = "put_ret" => thr[t].res = 0)
    /\ [][(life = "deinit" \/ life' = "uninit") =>
             (poolvars' = poolvars /\ life' = life /\ held' = held)]_vars

\* C9 witness: an acquire has returned after deinit().
C9_Witness ==
    life = "deinit" /\ \E t \in Threads : thr[t].pc = "get_ret" /\ thr[t].size >= PoolSize(1)

\* C10: deinit() reports every address that a tracking table still holds
\* for a block on loan.
C10_DeinitReportsLeaks ==
    [][(life = "init" /\ life' = "deinit") =>
          \A i \in Pools : \A a \in Loans :
              i \in Recorded(a) => <<"not_freed", a>> \in klog']_vars

\* C11: the audit can be called in every lifecycle state and completes: no
\* audit step reads through an absent pool set or an absent table.
C11_AuditNeverFaults == [][Audit => ~panic']_vars

\* C12: the audit changes nothing: across every step that produces an audit
\* report, and every audit step that faults, the pool-set handle, every
\* pool's mempool, cache, table, capacity and free blocks, and the loans
\* are the same before and after.
C12_AuditIsReadOnly ==
    [][(report' # NoReport \/ (Quiescent /\ ~panic /\ panic')) =>
          (poolvars' = poolvars /\ held' = held /\ life' = life)]_vars

\* C12 witness: an audit has walked tables that hold addresses.
C12_Witness == report # NoReport /\ report # {} /\ Loans # {}

\* C13: with no pool set bound, acquire returns NULL for every size and
\* release 0 for every address; release(NULL) returns 0 in every state; and
\* no step of such a call changes the handle, a mempool, a cache, a table,
\* a capacity, the free blocks or the loans.
C13_UninitCallsAreNoOps ==
    /\ [](\A t \in Threads :
            /\ (thr[t].pc = "get_ret" /\ cnss_pools = 0) => thr[t].mem = NULL
            /\ (thr[t].pc = "put_ret" /\ (cnss_pools = 0 \/ thr[t].mem = NULL)) =>
                  thr[t].res = 0)
    /\ [][\A t \in Threads :
            (/\ thr'[t] # thr[t]
             /\ \/ cnss_pools = 0
                \/ thr'[t].pc = "put_ret" /\ thr'[t].mem = NULL
                \/ thr[t].pc = "put_ret" /\ thr[t].mem = NULL) =>
                (poolvars' = poolvars /\ held' = held)]_vars

\* C13 witness: before initialize an acquire of a pool size and a release
\* of a non-null address have both returned.
C13_Witness ==
    /\ cnss_pools = 0
    /\ \E t \in Threads : thr[t].pc = "get_ret" /\ thr[t].size >= PoolSize(1)
    /\ \E t \in Threads : thr[t].pc = "put_ret" /\ thr[t].mem # NULL

\* The pools whose construction failed at the cache or the mempool, the
\* pools whose table allocation failed, and the pools built in full.
FailedPools ==
    {i \in Pools : <<"cache_failed", i>> \in klog \/ <<"mempool_failed", i>> \in klog}
TablelessPools == {i \in Pools : <<"table_failed", i>> \in klog}
HealthyPools == {i \in Pools : <<"created", i>> \in klog} \ TablelessPools

\* C14: when initialize built some pools and failed on the cache or the
\* mempool of others, acquire never selects a failed pool; a lone caller's
\* acquire(size) is served from the smallest healthy pool with block size
\* >= size that has a block in reserve, whenever there is one; and release
\* of an address the caller holds succeeds.
C14_PartialConstructionUsable ==
    (life = "init" /\ FailedPools # {} /\ TablelessPools = {}) =>
        \A t \in Threads :
            /\ (PastLoop(t) /\ thr[t].i <= NPools) => thr[t].i \notin FailedPools
            /\ (/\ scope.threads = {t} /\ thr[t].pc = "get_ret"
                /\ thr[t].size >= PoolSize(1)) =>
                  IF thr[t].mem = NULL
                  THEN \A j \in HealthyPools :
                          PoolSize(j) >= thr[t].size => curr_nr[j] = 0
                  ELSE \E j \in HealthyPools :
                          /\ PoolSize(j) >= thr[t].size
                          /\ thr[t].mem \in Blocks(j)
                          /\ \A k \in HealthyPools :
                                (k < j /\ PoolSize(k) >= thr[t].size) =>
                                    curr_nr[k] = 0
            /\ thr[t].pc = "put_ret" => thr[t].mem \notin held[t]

\* The environment of C15: the slab cache supplies nothing beyond the
\* reserve.
ReserveOnly == scope.slab = 0

\* The frames of an acquire of the smallest pool's size.
InAcquire(t) == thr[t].pc # "idle" /\ thr[t].size = PoolSize(1)

\* C15: with a single pool of reserve 1 and nothing beyond the reserve, of
\* two concurrent acquires of the pool's size that found the block free
\* exactly one gets it; the other returns NULL only if it ran non-blocking
\* and found the reserve empty, and a blocking one waits for the release:
\* neither stops before it returns.
C15_OneGetsTheBlock ==
    (ReserveOnly /\ life = "init") =>
        \A t \in Threads : \A u \in Threads \ {t} :
            (InAcquire(t) /\ InAcquire(u)) =>
                /\ thr[t].pc # "oops"
                /\ (/\ thr[t].pc = "get_ret" /\ thr[u].pc = "get_ret"
                    /\ Loans = {thr[t].mem, thr[u].mem} \ {NULL}) =>
                      /\ (thr[t].mem = NULL) # (thr[u].mem = NULL)
                      /\ thr[t].mem = NULL => thr[t].tried # {}

\* C16: acquire records an address before it returns it and release clears
\* the record before it frees the address, so in no state is an address
\* both in a mempool's free set and in a slot of a tracking table.
C16_RecordedNeverFree ==
    \A i \in Pools : \A a \in free[i] : Recorded(a) = {}

\* The frames inside the critical section of acquire or release.
InCritical(t) == thr[t].pc \in {"get_locked", "put_locked"}

\* C17: every table scan, insert, growth and remove of acquire and release
\* runs with pool_table_lock held by the thread that makes it, so no two
\* of them interleave; and a thread that calls mempool_alloc() or
\* mempool_free() does not hold the lock.
C17_TableOpsUnderLock ==
    /\ [](\A t \in Threads :
            /\ InCritical(t) => pool_table_lock = t
            /\ \A u \in Threads \ {t} : ~(InCritical(t) /\ InCritical(u)))
    /\ [][((pool_ptrs' # pool_ptrs \/ table_capacity' # table_capacity)
             /\ life' = life) =>
             (/\ pool_table_lock \in Threads
              /\ InCritical(pool_table_lock)
              /\ thr'[pool_table_lock].pc # thr[pool_table_lock].pc)]_vars
    /\ [][\A t \in Threads :
             (thr'[t].pc # thr[t].pc /\ life' = life
              /\ (free' # free \/ curr_nr' # curr_nr)) =>
                 pool_table_lock # t]_vars

\* C17 witness: one thread is inside the critical section while another
\* has taken a block from a mempool and waits for the lock.
C17_Witness ==
    \E t \in Threads : \E u \in Threads \ {t} :
        InCritical(t) /\ thr[u].pc = "get_slot" /\ ~panic

\* C18: run alone from the same state, the table-scan release(a) and the
\* direct-mapping release(a) return the same value and leave the same
\* tables, free blocks and reserves, for every address a.
C18_ReleaseStrategiesAgree ==
    \A t \in Threads :
        (scope.threads = {t} /\ thr[t].pc = "put_ret") =>
            /\ thr[t].res = thr[t].direct.res
            /\ pool_ptrs = thr[t].direct.ptrs
            /\ free = thr[t].direct.free
            /\ curr_nr = thr[t].direct.nr
            /\ panic = thr[t].direct.bad

\* C19: when wcnss_find_pool_table_slot() returns an error the pool's table
\* is still there, with the capacity and the recorded addresses it had
\* before the call.
C19_FailedGrowthKeepsTable ==
    [][\A t \in Threads :
          (thr[t].pc = "get_locked" /\ thr'[t].pc = "get_post"
           /\ thr'[t].ret < 0) =>
              (pool_ptrs' = pool_ptrs /\ table_capacity' = table_capacity)]_vars

\* C20: right after initialize every pool that was built and has a table
\* has table_capacity equal to its reserve minimum and every slot empty.
C20_FreshTableIsEmpty ==
    [][(life = "uninit" /\ life' = "init") =>
          \A i \in Pools :
              (mp'[i] /\ ~pool_ptrs'[i].nil) =>
                  /\ table_capacity'[i] = PoolMin(i)
                  /\ \A k \in 1..table_capacity'[i] :
                        pool_ptrs'[i].slots[k] = NULL]_vars

\* C21: under every interleaving the scan inside the lock runs on a pool
\* whose tracking table is present: the pool_ptrs test made before the lock
\* was taken still holds inside the critical section.
C21_ScanOnPresentTable ==
    \A t \in Threads : InCritical(t) => ~pool_ptrs[thr[t].i].nil

====
